---------------------------- MODULE Spec2Model ----------------------------
(* A model of models/biformer_stl_nchw.py: construction of BiFormerBlock,  *)
(* BasicLayer and nchwBiFormerSTL, the weight initialisation pass, the     *)
(* forward pass (tensor shapes and the order of the layer calls) and       *)
(* reset_classifier.                                                        *)
(*                                                                          *)
(* Layers are records (cls, hyper-parameters, and the initialiser that     *)
(* last wrote weight and bias).  Tensors are their shapes <<N, C, H, W>>.  *)
(* Stochastic-depth rates are exact fractions [num, den].                  *)
EXTENDS Integers, Sequences, FiniteSets, TLC

VARIABLES
    pc,                 \* "new" | "failed" | "ready" | position of forward
    cfg,                \* the constructor arguments of nchwBiFormerSTL
    err,                \* the exception the last call raised, or "none"
    num_classes,        \* self.num_classes
    embed_dim,          \* self.embed_dim (= self.num_features), a list
    downsample_layers,  \* self.downsample_layers
    stages,             \* self.stages
    norm,               \* self.norm
    head,               \* self.head
    xin,                \* history: the input of the running forward (its shape)
    x,                  \* the tensor flowing through forward (its shape)
    fi,                 \* forward_features: loop index i
    fj,                 \* BasicLayer.forward: index of the next block
    trace,              \* history: the layer calls of the running forward
    resetArg,           \* history: argument of the last reset_classifier, -1 = never
    pooled,             \* history: shape of the pooled features of the last forward
    bpc,                \* a stand-alone BiFormerBlock: "new" | "failed" | "built" | "called"
    bargs,              \* its constructor arguments (topk, drop_path)
    blk,                \* the block
    training,           \* its mode: train() / eval()
    bout                \* the value its forward returned (a term)

vars == <<pc, cfg, err, num_classes, embed_dim, downsample_layers, stages, norm,
          head, xin, x, fi, fj, trace, resetArg, pooled, bpc, bargs, blk, training, bout>>

netvars == <<pc, cfg, err, num_classes, embed_dim, downsample_layers, stages, norm,
             head, xin, x, fi, fj, trace, resetArg, pooled>>

blockvars == <<bpc, bargs, blk, training, bout>>

-----------------------------------------------------------------------------
(* Bounds of the model *)

MaxDepth == 2          \* blocks per stage: 1 or MaxDepth
MaxRate == 2           \* drop_path_rate: 0/RateDen .. MaxRate/RateDen
MaxClasses == 2        \* num_classes: 0..MaxClasses
MaxTopk == 2           \* topk of the stand-alone block: -3..MaxTopk
MaxBatch == 2          \* batch size of an input: 1 or MaxBatch

RateDen == 10          \* denominator of the drop_path_rate inputs

-----------------------------------------------------------------------------
(* Python helpers *)

Frac(n, d) == [num |-> n, den |-> d]

FracEq(a, b) == a.num * b.den = b.num * a.den

FracLeq(a, b) == a.num * b.den <= b.num * a.den

RECURSIVE sum(_)
sum(s) == IF Len(s) = 0 THEN 0 ELSE Head(s) + sum(Tail(s))

\* s[a:b] for 0 <= a <= b
PySlice(s, a, b) ==
    LET hi == IF b > Len(s) THEN Len(s) ELSE b
    IN  IF a >= hi THEN <<>> ELSE SubSeq(s, a + 1, hi)

PyInt(v) == [type |-> "int", v |-> v]

PyList(s) == [type |-> "list", v |-> s]

\* torch.linspace(0, r/RateDen, steps): step = (end - start) / (steps - 1), the
\* lower half counted up from start and the upper half counted down from end
linspace(r, steps) ==
    [idx \in 1..steps |->
        IF steps = 1 THEN Frac(0, 1)
        ELSE LET k == idx - 1
                 den == RateDen * (steps - 1)
             IN  IF k < steps \div 2
                 THEN Frac(r * k, den)
                 ELSE Frac(r * (steps - 1) - r * (steps - k - 1), den)]

-----------------------------------------------------------------------------
(* Layers, as the framework constructs them *)

NoLayer == [cls |-> "None"]

Identity == [cls |-> "Identity"]

\* nn.Conv2d(cin, cout, kernel_size=(k, k), stride=(stride, stride))
Conv2d(cin, cout, k, stride) ==
    [cls |-> "Conv2d", cin |-> cin, cout |-> cout, k |-> k, stride |-> stride,
     weight |-> "kaiming_uniform", bias |-> "uniform"]

\* norm_layer(dim): LayerNorm2d (a subclass of nn.LayerNorm) or nn.BatchNorm2d
NormLayer(cls, dim) ==
    [cls |-> cls, dim |-> dim, weight |-> "ones", bias |-> "zeros"]

\* nn.Linear(in_features, out_features): in_features must be an int
Linear(in_features, out_features) ==
    IF in_features.type = "int"
    THEN [ok |-> TRUE,
          layer |-> [cls |-> "Linear", cin |-> in_features.v, cout |-> out_features,
                     weight |-> "kaiming_uniform", bias |-> "uniform"]]
    ELSE [ok |-> FALSE, err |-> "TypeError"]

DropPath(p) == [cls |-> "DropPath", drop_prob |-> p]

checkpoint_wrapper(m) == [m EXCEPT !.wrapped = TRUE]


GELU == [cls |-> "GELU"]

Sequential(layers) == [cls |-> "Sequential", wrapped |-> FALSE, layers |-> layers]

-----------------------------------------------------------------------------
(* Defaults of the constructors *)

in_chans == 3

head_dim == 32

side_dwconv == 5

mlp_ratios == <<4, 4, 4, 4>>

DefaultTopks == <<1, 4, 16, -2>>     \* nchwBiFormerSTL.__init__

FactoryTopks == <<1, 4, 16, -1>>     \* biformer_stl_nchw

DefaultNWins == <<7, 7, 7, 7>>

DefaultEmbedDim == <<96, 192, 384, 768>>

-----------------------------------------------------------------------------
(* BiFormerBlock.__init__ *)

\* variant: the test reads topk >= 0, so 0 selects the routed attention
BlockAttn_NonNegative(dim, num_heads, n_win, topk) ==
    IF topk >= 0
    THEN [ok |-> TRUE,
          attn |-> [cls |-> "nchwBRA", dim |-> dim, num_heads |-> num_heads,
                    n_win |-> n_win, topk |-> topk, side_dwconv |-> side_dwconv]]
    ELSE IF topk = -1
    THEN [ok |-> TRUE, attn |-> [cls |-> "nchwAttentionLePE", dim |-> dim]]
    ELSE [ok |-> FALSE, err |-> "ValueError"]

\* variant: no final else, every value other than -1 takes the routed branch
BlockAttn_FallThrough(dim, num_heads, n_win, topk) ==
    IF topk = -1
    THEN [ok |-> TRUE, attn |-> [cls |-> "nchwAttentionLePE", dim |-> dim]]
    ELSE [ok |-> TRUE,
          attn |-> [cls |-> "nchwBRA", dim |-> dim, num_heads |-> num_heads,
                    n_win |-> n_win, topk |-> topk, side_dwconv |-> side_dwconv]]

\* the branch on topk that selects self.attn
BlockAttn(dim, num_heads, n_win, topk) ==
    IF topk > 0
    THEN [ok |-> TRUE,
          attn |-> [cls |-> "nchwBRA", dim |-> dim, num_heads |-> num_heads,
                    n_win |-> n_win, topk |-> topk, side_dwconv |-> side_dwconv]]
    ELSE IF topk = -1
    THEN [ok |-> TRUE, attn |-> [cls |-> "nchwAttentionLePE", dim |-> dim]]
    ELSE [ok |-> FALSE, err |-> "ValueError"]

\* self.drop_path = DropPath(drop_path) if drop_path > 0. else nn.Identity()
BlockDropPath(drop_path) ==
    IF drop_path.num > 0 THEN DropPath(drop_path) ELSE Identity

BiFormerBlock(dim, drop_path, num_heads, n_win, topk, mlp_ratio, norm_layer) ==
    LET a == BlockAttn(dim, num_heads, n_win, topk)
    IN  IF ~a.ok THEN [ok |-> FALSE, err |-> a.err]
        ELSE [ok |-> TRUE,
              blk |-> [cls |-> "BiFormerBlock",
                       norm1 |-> NormLayer(norm_layer, dim),
                       attn |-> a.attn,
                       norm2 |-> NormLayer(norm_layer, dim),
                       mlp |-> <<Conv2d(dim, mlp_ratio * dim, 1, 1), GELU,
                                 Conv2d(mlp_ratio * dim, dim, 1, 1)>>,
                       drop_path |-> BlockDropPath(drop_path)]]

-----------------------------------------------------------------------------
(* BasicLayer.__init__: depth blocks, block i with rate drop_path[i]; the  *)
(* blocks take BiFormerBlock's default norm_layer, LayerNorm2d             *)

BasicLayer(dim, depth, num_heads, n_win, topk, mlp_ratio, drop_path) ==
    LET made == [i \in 1..depth |->
                    BiFormerBlock(dim, drop_path[i], num_heads, n_win, topk,
                                  mlp_ratio, "LayerNorm2d")]
    IN  IF \E i \in 1..depth : ~made[i].ok
        THEN [ok |-> FALSE,
              err |-> made[CHOOSE i \in 1..depth :
                             ~made[i].ok /\ \A k \in 1..(i - 1) : made[k].ok].err]
        ELSE [ok |-> TRUE,
              layer |-> [cls |-> "BasicLayer", wrapped |-> FALSE, dim |-> dim,
                         depth |-> depth,
                         blocks |-> [i \in 1..depth |-> made[i].blk]]]

-----------------------------------------------------------------------------
(* nchwBiFormerSTL._init_weights and nn.Module.apply *)

\* variant: the first test also accepts nn.Conv2d
init_weights_ConvToo(m) ==
    IF m.cls \in {"Linear", "Conv2d"}
    THEN [m EXCEPT !.weight = "trunc_normal", !.bias = "zeros"]
    ELSE IF m.cls \in {"LayerNorm", "LayerNorm2d"}
    THEN [m EXCEPT !.bias = "zeros", !.weight = "ones"]
    ELSE m

init_weights(m) ==
    IF m.cls = "Linear"
    THEN [m EXCEPT !.weight = "trunc_normal", !.bias = "zeros"]
    ELSE IF m.cls \in {"LayerNorm", "LayerNorm2d"}
    THEN [m EXCEPT !.bias = "zeros", !.weight = "ones"]
    ELSE m

applySeq(layers) == [k \in 1..Len(layers) |-> init_weights(layers[k])]

applyBlock(b) ==
    [b EXCEPT !.norm1 = init_weights(@), !.norm2 = init_weights(@),
              !.mlp = applySeq(@)]

applyStage(s) == [s EXCEPT !.blocks = [k \in 1..Len(@) |-> applyBlock(@[k])]]

applyDownsample(d) == [d EXCEPT !.layers = applySeq(@)]

-----------------------------------------------------------------------------
(* nchwBiFormerSTL.__init__ *)

\* variant: the stem convolution has kernel and stride 2, like the later ones
MakeDownsample_StemStride2(c, i) ==
    LET layer == IF i = 0
                 THEN Sequential(<<Conv2d(in_chans, c.embed_dim[1], 2, 2),
                                   NormLayer(c.norm_layer, c.embed_dim[1])>>)
                 ELSE Sequential(<<NormLayer(c.norm_layer, c.embed_dim[i]),
                                   Conv2d(c.embed_dim[i], c.embed_dim[i + 1], 2, 2)>>)
    IN  IF c.use_checkpoint_stages # {} THEN checkpoint_wrapper(layer) ELSE layer

\* variant: a downsample layer is wrapped when its own index is listed
MakeDownsample_WrapByIndex(c, i) ==
    LET layer == IF i = 0
                 THEN Sequential(<<Conv2d(in_chans, c.embed_dim[1], 4, 4),
                                   NormLayer(c.norm_layer, c.embed_dim[1])>>)
                 ELSE Sequential(<<NormLayer(c.norm_layer, c.embed_dim[i]),
                                   Conv2d(c.embed_dim[i], c.embed_dim[i + 1], 2, 2)>>)
    IN  IF i \in c.use_checkpoint_stages THEN checkpoint_wrapper(layer) ELSE layer

\* the stem (conv-norm) and the three patch-merging layers (norm-conv)
MakeDownsample(c, i) ==
    LET layer == IF i = 0
                 THEN Sequential(<<Conv2d(in_chans, c.embed_dim[1], 4, 4),
                                   NormLayer(c.norm_layer, c.embed_dim[1])>>)
                 ELSE Sequential(<<NormLayer(c.norm_layer, c.embed_dim[i]),
                                   Conv2d(c.embed_dim[i], c.embed_dim[i + 1], 2, 2)>>)
    IN  IF c.use_checkpoint_stages # {} THEN checkpoint_wrapper(layer) ELSE layer

nheads(c) == [i \in 1..4 |-> c.embed_dim[i] \div head_dim]

dp_rates(c) == linspace(c.drop_path_rate, sum(c.depth))

\* variant: every stage slices from the start of the schedule
StageRates_FromZero(c, i) ==
    PySlice(dp_rates(c), 0, c.depth[i + 1])

\* dp_rates[sum(depth[:i]):sum(depth[:i+1])]
StageRates(c, i) ==
    PySlice(dp_rates(c), sum(PySlice(c.depth, 0, i)), sum(PySlice(c.depth, 0, i + 1)))

MakeStage(c, i) ==
    LET st == BasicLayer(c.embed_dim[i + 1], c.depth[i + 1], nheads(c)[i + 1],
                         c.n_wins[i + 1], c.topks[i + 1], mlp_ratios[i + 1],
                         StageRates(c, i))
    IN  IF ~st.ok THEN st
        ELSE IF i \in c.use_checkpoint_stages
        THEN [ok |-> TRUE, layer |-> checkpoint_wrapper(st.layer)]
        ELSE st

\* variant: the head is a Linear layer whatever num_classes is
MakeHead_AlwaysLinear(c) ==
    Linear(PyInt(c.embed_dim[Len(c.embed_dim)]), c.num_classes)

\* self.head = nn.Linear(embed_dim[-1], num_classes) if num_classes > 0 else nn.Identity()
MakeHead(c) ==
    IF c.num_classes > 0
    THEN Linear(PyInt(c.embed_dim[Len(c.embed_dim)]), c.num_classes)
    ELSE [ok |-> TRUE, layer |-> Identity]

MakeNorm(c) ==
    NormLayer(IF c.pre_head_norm_layer # "None" THEN c.pre_head_norm_layer
              ELSE c.norm_layer,
              c.embed_dim[Len(c.embed_dim)])

\* the whole constructor: the module tree after self.apply(self._init_weights),
\* or the exception that left no object
nchwBiFormerSTL(c) ==
    LET st == [i \in 1..4 |-> MakeStage(c, i - 1)]
        hd == MakeHead(c)
    IN  IF \E i \in 1..4 : ~st[i].ok
        THEN [ok |-> FALSE,
              err |-> st[CHOOSE i \in 1..4 :
                           ~st[i].ok /\ \A k \in 1..(i - 1) : st[k].ok].err]
        ELSE IF ~hd.ok THEN [ok |-> FALSE, err |-> hd.err]
        ELSE [ok |-> TRUE,
              num_classes |-> c.num_classes,
              embed_dim |-> c.embed_dim,
              downsample_layers |->
                  [i \in 1..4 |-> applyDownsample(MakeDownsample(c, i - 1))],
              stages |-> [i \in 1..4 |-> applyStage(st[i].layer)],
              norm |-> init_weights(MakeNorm(c)),
              head |-> init_weights(hd.layer)]


-----------------------------------------------------------------------------
(* Forward: the shape each layer returns, ShapeError when it raises *)

ShapeError == <<>>

Conv2dForward(l, s) ==
    IF s = ShapeError \/ Len(s) # 4 THEN ShapeError
    ELSE IF s[2] # l.cin \/ s[3] < l.k \/ s[4] < l.k THEN ShapeError
    ELSE <<s[1], l.cout, (s[3] - l.k) \div l.stride + 1,
                         (s[4] - l.k) \div l.stride + 1>>

NormForward(l, s) ==
    IF s = ShapeError \/ Len(s) # 4 THEN ShapeError
    ELSE IF s[2] # l.dim THEN ShapeError
    ELSE s

LinearForward(l, s) ==
    IF s = ShapeError THEN ShapeError
    ELSE IF s[Len(s)] # l.cin THEN ShapeError
    ELSE [s EXCEPT ![Len(s)] = l.cout]

\* nchwBRA / nchwAttentionLePE: an NCHW tensor in, one of identical shape out
AttnForward(a, s) ==
    IF s = ShapeError THEN ShapeError
    ELSE IF s[2] # a.dim THEN ShapeError
    ELSE s

LayerForward(l, s) ==
    IF l.cls = "Conv2d" THEN Conv2dForward(l, s)
    ELSE IF l.cls = "Linear" THEN LinearForward(l, s)
    ELSE IF l.cls \in {"LayerNorm2d", "BatchNorm2d"} THEN NormForward(l, s)
    ELSE s

RECURSIVE SequentialForward(_, _)
SequentialForward(layers, s) ==
    IF Len(layers) = 0 THEN s
    ELSE SequentialForward(Tail(layers), LayerForward(Head(layers), s))

\* x + branch: both operands of the residual sum must have one shape
ResidualAdd(s, branch) ==
    IF s = ShapeError \/ branch # s THEN ShapeError ELSE s

\* BiFormerBlock.forward on shapes (drop_path keeps the shape)
BlockForwardShape(b, s) ==
    LET x1 == ResidualAdd(s, AttnForward(b.attn, NormForward(b.norm1, s)))
    IN  ResidualAdd(x1, SequentialForward(b.mlp, NormForward(b.norm2, x1)))

\* x.mean([2, 3])
MeanForward(s) ==
    IF s = ShapeError \/ Len(s) # 4 THEN ShapeError ELSE <<s[1], s[2]>>

HeadForward(h, s) == LayerForward(h, s)


-----------------------------------------------------------------------------
(* The configurations and inputs explored *)

DefaultDepth == <<2, 2, 6, 2>>

BaseCfg ==
    [num_classes |-> MaxClasses, depth |-> <<1, 1, 1, 1>>,
     embed_dim |-> DefaultEmbedDim, drop_path_rate |-> 1,
     use_checkpoint_stages |-> {}, norm_layer |-> "LayerNorm2d",
     pre_head_norm_layer |-> "None", n_wins |-> DefaultNWins,
     topks |-> FactoryTopks]

\* the arguments biformer_stl_nchw passes, and the class defaults
FactoryCfg ==
    [BaseCfg EXCEPT !.num_classes = 1000, !.depth = DefaultDepth,
                    !.drop_path_rate = 0, !.norm_layer = "BatchNorm2d"]

ClassDefaultCfg ==
    [BaseCfg EXCEPT !.num_classes = 1000, !.depth = DefaultDepth,
                    !.drop_path_rate = 0, !.topks = DefaultTopks]

TopkChoices == {DefaultTopks, FactoryTopks, <<1, 4, 0, -1>>, <<-1, -1, -1, -1>>,
                <<2, 2, 2, 2>>}

CheckpointChoices == {{}, {0}, {3}, {1, 2}, {0, 1, 2, 3}, {4}}

NormChoices == {"LayerNorm2d", "BatchNorm2d"}

ScheduleConfigs ==
    {[BaseCfg EXCEPT !.depth = d, !.drop_path_rate = r] :
        d \in [1..4 -> {1, MaxDepth}], r \in 0..MaxRate}

WiringConfigs ==
    {[BaseCfg EXCEPT !.topks = t, !.use_checkpoint_stages = u, !.norm_layer = n,
                     !.num_classes = k] :
        t \in TopkChoices, u \in CheckpointChoices, n \in NormChoices,
        k \in 0..MaxClasses}

Configs ==
    ScheduleConfigs \cup WiringConfigs
    \cup {FactoryCfg, ClassDefaultCfg,
          [BaseCfg EXCEPT !.pre_head_norm_layer = "BatchNorm2d"]}

InputSizes == {24, 32, 40}

Inputs ==
    {<<n, in_chans, h, w>> : n \in {1, MaxBatch}, h \in InputSizes, w \in InputSizes}
    \cup {<<n, in_chans, 224, 224>> : n \in {1, MaxBatch}}

-----------------------------------------------------------------------------
(* The network: construction, forward, reset_classifier *)

NoBlock ==
    /\ bpc = "off"
    /\ bargs = [topk |-> 4, drop_path |-> Frac(0, 1), norm_layer |-> "LayerNorm2d"]
    /\ blk = NoLayer
    /\ training = TRUE
    /\ bout = [op |-> "none"]

Init ==
    /\ cfg \in Configs
    /\ pc = "new"
    /\ err = "none"
    /\ num_classes = 0
    /\ embed_dim = <<>>
    /\ downsample_layers = <<>>
    /\ stages = <<>>
    /\ norm = NoLayer
    /\ head = NoLayer
    /\ xin = <<>>
    /\ x = <<>>
    /\ fi = 0
    /\ fj = 0
    /\ trace = <<>>
    /\ resetArg = -1
    /\ pooled = <<>>
    /\ NoBlock

\* model = nchwBiFormerSTL(**cfg)
Construct ==
    /\ pc = "new"
    /\ LET m == nchwBiFormerSTL(cfg)
       IN  IF m.ok
           THEN /\ pc' = "ready"
                /\ err' = "none"
                /\ num_classes' = m.num_classes
                /\ embed_dim' = m.embed_dim
                /\ downsample_layers' = m.downsample_layers
                /\ stages' = m.stages
                /\ norm' = m.norm
                /\ head' = m.head
           ELSE /\ pc' = "failed"
                /\ err' = m.err
                /\ UNCHANGED <<num_classes, embed_dim, downsample_layers, stages,
                               norm, head>>
    /\ UNCHANGED <<cfg, xin, x, fi, fj, trace, resetArg, pooled>>
    /\ UNCHANGED blockvars

\* reset_classifier(n): the assignment to num_classes precedes the construction
\* of the new head, which is given self.embed_dim, the list
reset_classifier(n) ==
    /\ pc = "ready"
    /\ num_classes' = n
    /\ LET h == IF n > 0 THEN Linear(PyList(embed_dim), n)
                ELSE [ok |-> TRUE, layer |-> Identity]
       IN  IF h.ok
           THEN head' = h.layer /\ err' = "none"
           ELSE head' = head /\ err' = h.err
    /\ resetArg' = n
    /\ UNCHANGED <<pc, cfg, embed_dim, downsample_layers, stages, norm, xin, x, fi,
                   fj, trace, pooled>>
    /\ UNCHANGED blockvars

Call(op, i, j) == [op |-> op, i |-> i, j |-> j]

\* model(input): entry of forward / forward_features
ForwardCall(input) ==
    /\ pc = "ready"
    /\ pc' = "downsample"
    /\ xin' = input
    /\ x' = input
    /\ fi' = 0
    /\ fj' = 0
    /\ trace' = <<>>
    /\ pooled' = <<>>
    /\ err' = "none"
    /\ UNCHANGED <<cfg, num_classes, embed_dim, downsample_layers, stages, norm,
                   head, resetArg>>
    /\ UNCHANGED blockvars

Raise ==
    /\ pc' = "raised"
    /\ err' = "RuntimeError"
    /\ x' = ShapeError

\* x = self.downsample_layers[i](x)
ForwardDownsample ==
    /\ pc = "downsample"
    /\ LET y == SequentialForward(downsample_layers[fi + 1].layers, x)
       IN  IF y = ShapeError
           THEN Raise /\ UNCHANGED <<fi, fj, trace>>
           ELSE /\ x' = y
                /\ trace' = Append(trace, Call("downsample", fi, 0))
                /\ fj' = 0
                /\ IF Len(stages[fi + 1].blocks) > 0
                   THEN pc' = "stage" /\ fi' = fi
                   ELSE /\ fi' = fi + 1
                        /\ pc' = IF fi + 1 < 4 THEN "downsample" ELSE "norm"
                /\ err' = err
    /\ UNCHANGED <<cfg, num_classes, embed_dim, downsample_layers, stages, norm,
                   head, xin, resetArg, pooled>>
    /\ UNCHANGED blockvars

\* variant: the loop over the blocks returns after its first iteration
ForwardBlock_FirstOnly ==
    /\ pc = "stage"
    /\ LET y == BlockForwardShape(stages[fi + 1].blocks[fj + 1], x)
       IN  IF y = ShapeError
           THEN Raise /\ UNCHANGED <<fi, fj, trace>>
           ELSE /\ x' = y
                /\ trace' = Append(trace, Call("block", fi, fj))
                /\ fj' = 0
                /\ fi' = fi + 1
                /\ pc' = IF fi + 1 < 4 THEN "downsample" ELSE "norm"
                /\ err' = err
    /\ UNCHANGED <<cfg, num_classes, embed_dim, downsample_layers, stages, norm,
                   head, xin, resetArg, pooled>>
    /\ UNCHANGED blockvars

\* x = self.stages[i](x): one iteration of "for blk in self.blocks: x = blk(x)"
ForwardBlock ==
    /\ pc = "stage"
    /\ LET y == BlockForwardShape(stages[fi + 1].blocks[fj + 1], x)
       IN  IF y = ShapeError
           THEN Raise /\ UNCHANGED <<fi, fj, trace>>
           ELSE /\ x' = y
                /\ trace' = Append(trace, Call("block", fi, fj))
                /\ IF fj + 1 < Len(stages[fi + 1].blocks)
                   THEN fj' = fj + 1 /\ fi' = fi /\ pc' = pc
                   ELSE /\ fj' = 0
                        /\ fi' = fi + 1
                        /\ pc' = IF fi + 1 < 4 THEN "downsample" ELSE "norm"
                /\ err' = err
    /\ UNCHANGED <<cfg, num_classes, embed_dim, downsample_layers, stages, norm,
                   head, xin, resetArg, pooled>>
    /\ UNCHANGED blockvars

\* x = self.norm(x)
ForwardNorm ==
    /\ pc = "norm"
    /\ LET y == LayerForward(norm, x)
       IN  IF y = ShapeError
           THEN Raise /\ trace' = trace
           ELSE /\ x' = y
                /\ trace' = Append(trace, Call("norm", 0, 0))
                /\ pc' = "mean"
                /\ err' = err
    /\ UNCHANGED <<cfg, num_classes, embed_dim, downsample_layers, stages, norm,
                   head, xin, fi, fj, resetArg, pooled>>
    /\ UNCHANGED blockvars

\* x = x.mean([2, 3])
ForwardMean ==
    /\ pc = "mean"
    /\ x' = MeanForward(x)
    /\ pooled' = MeanForward(x)
    /\ trace' = Append(trace, Call("mean", 0, 0))
    /\ pc' = "head"
    /\ UNCHANGED <<cfg, err, num_classes, embed_dim, downsample_layers, stages,
                   norm, head, xin, fi, fj, resetArg>>
    /\ UNCHANGED blockvars

\* x = self.head(x); return x
ForwardHead ==
    /\ pc = "head"
    /\ LET y == HeadForward(head, x)
       IN  IF y = ShapeError
           THEN Raise /\ trace' = trace
           ELSE /\ x' = y
                /\ trace' = Append(trace, Call("head", 0, 0))
                /\ pc' = "done"
                /\ err' = err
    /\ UNCHANGED <<cfg, num_classes, embed_dim, downsample_layers, stages, norm,
                   head, xin, fi, fj, resetArg, pooled>>
    /\ UNCHANGED blockvars

\* the caller has the result (or the exception); the model is idle again
ForwardReturn ==
    /\ pc \in {"done", "raised"}
    /\ pc' = "ready"
    /\ xin' = <<>>
    /\ x' = <<>>
    /\ fi' = 0
    /\ fj' = 0
    /\ trace' = <<>>
    /\ pooled' = <<>>
    /\ UNCHANGED <<cfg, err, num_classes, embed_dim, downsample_layers, stages,
                   norm, head, resetArg>>
    /\ UNCHANGED blockvars

Next ==
    \/ Construct
    \/ \E n \in 0..MaxClasses : reset_classifier(n)
    \/ \E input \in Inputs : ForwardCall(input)
    \/ ForwardDownsample
    \/ ForwardBlock
    \/ ForwardNorm
    \/ ForwardMean
    \/ ForwardHead
    \/ ForwardReturn

Spec == Init /\ [][Next]_vars


-----------------------------------------------------------------------------
(* A stand-alone BiFormerBlock: construction, train()/eval(), forward on   *)
(* values.  A value is a term over the input: the sub-layers are opaque    *)
(* functions, residual sums and the stochastic-depth mask are explicit.    *)

Input == [op |-> "x"]

App(f, t) == [op |-> f, arg |-> t]

Add(a, b) == [op |-> "add", l |-> a, r |-> b]

Mul(t, c) == [op |-> "mul", arg |-> t, by |-> c]

\* variant: the mask is applied whatever the mode
DropPathForward_AnyMode(m, t, train, keep) ==
    IF m.cls = "Identity" THEN t
    ELSE IF m.drop_prob.num = 0 THEN t
    ELSE IF keep
    THEN Mul(t, Frac(m.drop_prob.den, m.drop_prob.den - m.drop_prob.num))
    ELSE Mul(t, Frac(0, 1))

\* timm's DropPath.forward / nn.Identity.forward: identity unless training with
\* drop_prob > 0; then the branch is zeroed (keep = FALSE) or divided by keep_prob
DropPathForward(m, t, train, keep) ==
    IF m.cls = "Identity" THEN t
    ELSE IF m.drop_prob.num = 0 \/ ~train THEN t
    ELSE IF keep
    THEN Mul(t, Frac(m.drop_prob.den, m.drop_prob.den - m.drop_prob.num))
    ELSE Mul(t, Frac(0, 1))

\* BiFormerBlock.forward
BlockForward(b, t, train, keep1, keep2) ==
    LET x1 == Add(t, DropPathForward(b.drop_path, App("attn", App("norm1", t)),
                                     train, keep1))
    IN  Add(x1, DropPathForward(b.drop_path, App("mlp", App("norm2", x1)),
                                train, keep2))

BlockArgs ==
    {[topk |-> k, drop_path |-> Frac(r, RateDen), norm_layer |-> n] :
        k \in (-3)..MaxTopk, r \in 0..MaxRate, n \in NormChoices}

NoNet ==
    /\ cfg = BaseCfg
    /\ pc = "off"
    /\ err = "none"
    /\ num_classes = 0
    /\ embed_dim = <<>>
    /\ downsample_layers = <<>>
    /\ stages = <<>>
    /\ norm = NoLayer
    /\ head = NoLayer
    /\ xin = <<>>
    /\ x = <<>>
    /\ fi = 0
    /\ fj = 0
    /\ trace = <<>>
    /\ resetArg = -1
    /\ pooled = <<>>

BlockInit ==
    /\ bargs \in BlockArgs
    /\ bpc = "new"
    /\ blk = NoLayer
    /\ training = TRUE
    /\ bout = [op |-> "none"]
    /\ NoNet

\* blk = BiFormerBlock(dim, drop_path=..., topk=..., norm_layer=...), the other
\* arguments at their defaults (num_heads=8, n_win=7, mlp_ratio=4)
BlockConstruct ==
    /\ bpc = "new"
    /\ LET b == BiFormerBlock(DefaultEmbedDim[1], bargs.drop_path, 8, 7, bargs.topk,
                              4, bargs.norm_layer)
       IN  IF b.ok
           THEN bpc' = "built" /\ blk' = b.blk
           ELSE bpc' = "failed" /\ blk' = blk
    /\ UNCHANGED <<bargs, training, bout>>
    /\ UNCHANGED netvars

\* blk.train(mode) / blk.eval(); the result of an earlier call is dropped
BlockTrain(mode) ==
    /\ bpc \in {"built", "called"}
    /\ training' = mode
    /\ bpc' = "built"
    /\ bout' = [op |-> "none"]
    /\ UNCHANGED <<bargs, blk>>
    /\ UNCHANGED netvars

\* bout = blk(x); keep1, keep2 are the draws of the two stochastic-depth masks
BlockCall(keep1, keep2) ==
    /\ bpc \in {"built", "called"}
    /\ bout' = BlockForward(blk, Input, training, keep1, keep2)
    /\ bpc' = "called"
    /\ UNCHANGED <<bargs, blk, training>>
    /\ UNCHANGED netvars

BlockNext ==
    \/ BlockConstruct
    \/ \E mode \in BOOLEAN : BlockTrain(mode)
    \/ \E keep1 \in BOOLEAN, keep2 \in BOOLEAN : BlockCall(keep1, keep2)

BlockSpec == BlockInit /\ [][BlockNext]_vars


-----------------------------------------------------------------------------
(* Properties of the stand-alone block (BlockSpec) *)

\* C1: a BiFormerBlock built with topk > 0 exists and its attention is nchwBRA;
\* with topk = -1 it exists and its attention is nchwAttentionLePE; for every
\* other topk (0, or negative other than -1) the constructor raised and there
\* is no block.
C1_TopkSelectsAttention ==
    bpc \in {"failed", "built", "called"} =>
        /\ bargs.topk > 0 =>
               /\ bpc # "failed"
               /\ blk.cls = "BiFormerBlock"
               /\ blk.attn.cls = "nchwBRA"
        /\ bargs.topk = -1 =>
               /\ bpc # "failed"
               /\ blk.cls = "BiFormerBlock"
               /\ blk.attn.cls = "nchwAttentionLePE"
        /\ (bargs.topk <= 0 /\ bargs.topk # -1) =>
               /\ bpc = "failed"
               /\ blk = NoLayer

C1_Witness == bpc = "failed" /\ bargs.topk = 0 /\ blk = NoLayer

\* the output of the block with neither residual branch dropped or scaled
PlainX1 == Add(Input, App("attn", App("norm1", Input)))

PlainOutput == Add(PlainX1, App("mlp", App("norm2", PlainX1)))

\* C7: whatever the configured drop-path rate, a forward in evaluation mode
\* returns x + attn(norm1(x)) followed by + mlp(norm2(.)), nothing dropped or
\* scaled; and a block configured with rate 0 returns it in training mode too.
C7_DropPathIdentityInEval ==
    bpc = "called" =>
        /\ ~training => bout = PlainOutput
        /\ bargs.drop_path.num = 0 => bout = PlainOutput

C7_Witness ==
    /\ bpc = "called"
    /\ ~training
    /\ bargs.drop_path.num > 0
    /\ blk.drop_path.cls = "DropPath"
    /\ bout = PlainOutput


-----------------------------------------------------------------------------
(* Properties of the network (Spec) *)

Constructed == pc \notin {"new", "failed", "off"}

InForward == pc \in {"downsample", "stage", "norm", "mean", "head", "done", "raised"}

\* the factor by which the grid entering stage i is smaller than the input
StageStride(i) == 4 * 2 ^ i

HeadWidth == IF head.cls = "Linear" THEN head.cout ELSE embed_dim[Len(embed_dim)]

\* C3: after reset_classifier(n) the call has succeeded, num_classes is n, and
\* the output width of forward is n (the pooled width embed_dim[-1] when n = 0).
C3_ResetClassifier ==
    (Constructed /\ resetArg # -1) =>
        /\ err # "TypeError"
        /\ num_classes = resetArg
        /\ HeadWidth = (IF resetArg > 0 THEN resetArg ELSE embed_dim[Len(embed_dim)])
        /\ pc = "done" => x = <<xin[1], HeadWidth>>


\* the stochastic-depth rate a block was built with (nn.Identity stands for 0)
BlockRate(b) ==
    IF b.drop_path.cls = "DropPath" THEN b.drop_path.drop_prob ELSE Frac(0, 1)

\* the rate of the block at global index g (0-based), stage after stage
RECURSIVE RateAt(_, _)
RateAt(g, i) ==
    IF g < Len(stages[i].blocks) THEN BlockRate(stages[i].blocks[g + 1])
    ELSE RateAt(g - Len(stages[i].blocks), i + 1)

TotalDepth == sum(cfg.depth)

\* C4: in a constructed model the rates of the blocks, read stage after stage, are the sum(depth)
\* evenly spaced values from 0 to drop_path_rate: block j of stage i has the
\* rate of global index sum(depth[:i]) + j, the first rate is 0, the last is
\* drop_path_rate, the sequence never decreases, and stage i holds exactly
\* depth[i] blocks, so that no rate is reused or skipped.
C4_DropPathSchedule ==
    pc = "ready" =>
        /\ \A i \in 1..4 : Len(stages[i].blocks) = cfg.depth[i]
        /\ \A i \in 1..4 : \A j \in 1..cfg.depth[i] :
               LET g == sum(PySlice(cfg.depth, 0, i - 1)) + (j - 1)
               IN  FracEq(BlockRate(stages[i].blocks[j]),
                          Frac(cfg.drop_path_rate * g, RateDen * (TotalDepth - 1)))
        /\ FracEq(RateAt(0, 1), Frac(0, 1))
        /\ FracEq(RateAt(TotalDepth - 1, 1), Frac(cfg.drop_path_rate, RateDen))
        /\ \A g \in 0..(TotalDepth - 2) : FracLeq(RateAt(g, 1), RateAt(g + 1, 1))

C4_Witness ==
    /\ pc = "ready"
    /\ cfg.drop_path_rate > 0
    /\ cfg.depth = <<2, 1, 2, 1>>
    /\ FracEq(BlockRate(stages[3].blocks[1]), Frac(3 * cfg.drop_path_rate, 5 * RateDen))

\* C5: a forward pass of a model as constructed that ends without error returns
\* a 2-D result: (B, num_classes) when num_classes > 0, and for num_classes = 0
\* (B, embed_dim[-1]), the pooled output of the final normalisation itself.
C5_OutputShape ==
    (pc = "done" /\ resetArg = -1) =>
        /\ Len(x) = 2
        /\ x[1] = xin[1]
        /\ cfg.num_classes > 0 => x[2] = cfg.num_classes
        /\ cfg.num_classes = 0 =>
               /\ x[2] = cfg.embed_dim[4]
               /\ x = pooled
               /\ head.cls = "Identity"

C5_Witness ==
    /\ pc = "done"
    /\ resetArg = -1
    /\ cfg.depth = DefaultDepth
    /\ cfg.embed_dim = DefaultEmbedDim
    /\ xin = <<1, 3, 224, 224>>
    /\ x = <<1, 1000>>

\* the calls of one complete forward pass, in order
RECURSIVE ExpectedFrom(_)
ExpectedFrom(i) ==
    IF i = 4 THEN <<Call("norm", 0, 0), Call("mean", 0, 0), Call("head", 0, 0)>>
    ELSE <<Call("downsample", i, 0)>>
         \o [j \in 1..cfg.depth[i + 1] |-> Call("block", i, j - 1)]
         \o ExpectedFrom(i + 1)

ExpectedTrace == ExpectedFrom(0)

\* C6: the calls a forward pass has made are at every moment a prefix of:
\* downsample 0, the blocks of stage 0 in index order, downsample 1, stage 1,
\* downsample 2, stage 2, downsample 3, stage 3, the final norm, the spatial
\* mean, the head; and a pass that returned made exactly all of them, once each.
C6_ForwardOrder ==
    InForward =>
        /\ Len(trace) <= Len(ExpectedTrace)
        /\ trace = SubSeq(ExpectedTrace, 1, Len(trace))
        /\ pc = "done" => trace = ExpectedTrace

C6_Witness ==
    /\ pc = "done"
    /\ cfg.depth = DefaultDepth
    /\ Len(trace) = 19
    /\ trace[8] = Call("block", 2, 0)

\* C8 (as stated): constructing with the class-default topks (1, 4, 16, -2)
\* succeeds and stage 3 uses the routed attention.
C8_DefaultTopksRouted ==
    (cfg.topks = DefaultTopks /\ pc # "new") =>
        /\ pc # "failed"
        /\ \A j \in 1..cfg.depth[4] : stages[4].blocks[j].attn.cls = "nchwBRA"

\* C8 (amended): constructing with the class-default topks (1, 4, 16, -2) and
\* at least one block in stage 3 raises ValueError, -2 taking the else branch
\* of BiFormerBlock, and no model is produced.
C8_DefaultTopksRejected ==
    (cfg.topks = DefaultTopks /\ cfg.depth[4] >= 1 /\ pc # "new") =>
        /\ pc = "failed"
        /\ err = "ValueError"
        /\ stages = <<>>
        /\ head = NoLayer

C8_Witness == cfg = ClassDefaultCfg /\ pc = "failed" /\ err = "ValueError"

\* P holds of every layer of the model that this file constructs
EveryLayer(P(_)) ==
    /\ \A i \in 1..4 :
           /\ \A k \in 1..Len(downsample_layers[i].layers) :
                  P(downsample_layers[i].layers[k])
           /\ \A j \in 1..Len(stages[i].blocks) :
                  /\ P(stages[i].blocks[j].norm1)
                  /\ P(stages[i].blocks[j].norm2)
                  /\ \A k \in 1..Len(stages[i].blocks[j].mlp) :
                         P(stages[i].blocks[j].mlp[k])
    /\ P(norm)
    /\ P(head)

IsNormLayer(l) == l.cls \in {"LayerNorm", "LayerNorm2d", "BatchNorm2d"}

InitAsStated(l) ==
    /\ l.cls \in {"Linear", "Conv2d"} => (l.weight = "trunc_normal" /\ l.bias = "zeros")
    /\ IsNormLayer(l) => (l.weight = "ones" /\ l.bias = "zeros")

InitAsCoded(l) ==
    /\ l.cls = "Linear" => (l.weight = "trunc_normal" /\ l.bias = "zeros")
    /\ l.cls = "Conv2d" => (l.weight = "kaiming_uniform" /\ l.bias = "uniform")
    /\ IsNormLayer(l) => (l.weight = "ones" /\ l.bias = "zeros")

\* C9 (as stated): in a constructed model every linear and every convolution
\* layer has truncated-normal weights and zero bias, and every normalisation
\* layer unit scale and zero bias.
C9_InitLinearAndConv == pc = "ready" => EveryLayer(InitAsStated)

\* C9 (amended): in a constructed model every linear layer has truncated-normal
\* weights and zero bias and every normalisation layer (LayerNorm2d or
\* BatchNorm2d) unit scale and zero bias; the convolution layers are not touched
\* by the pass and keep the framework's default initialisation.
C9_InitLinearOnly == pc = "ready" => EveryLayer(InitAsCoded)

C9_Witness ==
    /\ pc = "ready"
    /\ cfg.norm_layer = "BatchNorm2d"
    /\ head.cls = "Linear"
    /\ head.weight = "trunc_normal"
    /\ downsample_layers[1].layers[1].cls = "Conv2d"
    /\ downsample_layers[1].layers[1].weight = "kaiming_uniform"

\* C10: in a constructed model stage i is wrapped by the checkpoint wrapper iff i is listed in
\* use_checkpoint_stages; each of the four downsample layers is wrapped iff
\* use_checkpoint_stages is non-empty, whichever indices it lists.
C10_CheckpointWrapping ==
    pc = "ready" =>
        \A i \in 0..3 :
            /\ stages[i + 1].wrapped <=> (i \in cfg.use_checkpoint_stages)
            /\ downsample_layers[i + 1].wrapped <=> (cfg.use_checkpoint_stages # {})

C10_Witness ==
    /\ pc = "ready"
    /\ cfg.use_checkpoint_stages = {3}
    /\ downsample_layers[1].wrapped
    /\ ~stages[1].wrapped
    /\ stages[4].wrapped

=============================================================================
